---- MODULE Spec2Model ----
(***************************************************************************)
(* Layout core of kas: the SizeRules value type (layout/size_rules.rs) and *)
(* the one-dimensional size distribution SizeRules::solve_seq.             *)
(*                                                                         *)
(* solve_seq is modelled as a state machine over its local variables: the  *)
(* entry branch, each for-loop of the source as one operator, and each     *)
(* iteration of the deficit `while` loop as one step.  Every unsigned      *)
(* subtraction, the division and the two assert!s are guarded: a failing   *)
(* one moves the call to pc = "panic".                                     *)
(***************************************************************************)
EXTENDS Integers, Sequences, FiniteSets, TLC

\* ------------------------------------------------------------------ bounds
\* largest number of children in the exhaustive input grid
MaxN == 3
\* largest minimum / preferred size in the exhaustive input grid
MaxSize == 3
\* how far the target may exceed the total preferred size
MaxOver == 2
\* value found in `out` before a call (stale contents of the caller's buffer)
Stale == 7
\* largest value of the unsigned word the value operations are run on (the
\* source has u32; the word is scaled down so that overflow is reachable)
WordMax == 7
\* largest component of a margin and largest number of columns / rows
MaxMargin == 2
MaxCount == 3
\* largest value of the word a WidgetId is kept in (u32::MAX in the source)
IdMax == 63
\* number of windows the event loop creates in all, and the instants a window
\* may ask to be resumed at
MaxWindows == 3
MaxInstant == 2
\* largest value of the word an index is kept in (usize::MAX in the source)
UsizeMax == 15
\* longest text a widget is followed with
MaxText == 2

VARIABLES
    rules,          \* &[SizeRules]: N child rules followed by their total
    target,         \* u32
    out,            \* &mut [u32]
    pc,             \* "call" | "check" | "loop" | "done" | "panic"
    sum,            \* local `sum` of the surplus branch
    excess,         \* locals of the deficit branch
    largest,
    num_equal,
    next_largest,
    prior,          \* `out` as the caller passed it to the current call
    calls,          \* number of calls of solve_seq started on these inputs
    first_out,      \* `out` as the first call left it
    sr,             \* a SizeRules value (`self` of the value operations)
    op,             \* the operation that produced sr
    build,          \* "debug": integer overflow panics; "release": it wraps
    sr_pc,          \* "run" | "panic"
    call,           \* a function of the library and its arguments
    ret,            \* what the call returned, or that it panicked
    printed,        \* diagnostics the call wrote to standard output
    wid,            \* the WidgetId last handed out
    issued,         \* every WidgetId handed out so far, in order
    wid_pc,         \* "idle" | "run" | "panic"
    windows,        \* Loop.windows: the identity of each open window
    resumes,        \* Loop.resumes: (Instant, index into windows), and the
                    \* window that scheduled the entry
    control_flow,   \* the ControlFlow the handler last left to winit
    loop_pc,        \* "idle" | "start" | "run" | "exit" | "panic: .."
    made,           \* number of windows created so far
    closed,         \* the windows removed by TkAction::Close
    widget,         \* "none" | "Label" | "EditBox": the text widget followed
    text,           \* its text, a sequence of chars (code points)
    old_state,      \* EditBox.old_state: Option<String>
    last_edit,      \* EditBox.last_edit
    editable,       \* EditBox.editable
    multi_line,     \* EditBox.multi_line
    on_activate,    \* EditBox.on_activate: "()" | "closure"
    clipboard,      \* what TkWindow::get_clipboard returns
    size_handle,    \* the theme's SizeHandle
    edit_pc,        \* "idle" | "run" | "panic"
    past,           \* the last operation on the widget: what was asked,
                    \* what it gave back and, for an undo and for size_rules,
                    \* the widget it found; before it the operation that
                    \* preceded it, when an undo or size_rules is repeated
    run_kind,       \* kind of the latest run of edits, "Undone" once an
                    \* undo has followed it
    run_start       \* the text before the first edit of the latest run

solveVars == <<rules, target, out, pc, sum, excess, largest, num_equal,
               next_largest, prior, calls, first_out>>

rulesVars == <<sr, op, build, sr_pc>>

callVars == <<call, ret, printed>>

idsVars == <<wid, issued, wid_pc>>

\* the state of the parts modelled after the layout arithmetic
loopVars == <<windows, resumes, control_flow, loop_pc, made, closed>>

editVars == <<widget, text, old_state, last_edit, editable, multi_line,
              on_activate, clipboard, size_handle, edit_pc, past, run_kind,
              run_start>>

otherVars == <<idsVars, loopVars, editVars>>

vars == <<rules, target, out, pc, sum, excess, largest, num_equal,
          next_largest, prior, calls, first_out, sr, op, build, sr_pc,
          call, ret, printed, wid, issued, wid_pc,
          windows, resumes, control_flow, loop_pc, made, closed,
          widget, text, old_state, last_edit, editable, multi_line,
          on_activate, clipboard, size_handle, edit_pc, past, run_kind,
          run_start>>

\* the variables a step of solve_seq / a value operation leaves alone
nonSolveVars == <<rulesVars, callVars, otherVars>>
nonRulesVars == <<solveVars, callVars, otherVars>>

\* no single call is being followed
IdleCalls ==
    /\ call = [fn |-> "none"]
    /\ ret = [kind |-> "none"]
    /\ printed = <<>>

\* pub const FIRST: WidgetId
FIRST == 1

\* no identifier has been handed out
IdleIds ==
    /\ wid = FIRST
    /\ issued = <<>>
    /\ wid_pc = "idle"

\* no event loop exists
IdleLoop ==
    /\ windows = <<>>
    /\ resumes = <<>>
    /\ control_flow = [kind |-> "Poll"]
    /\ loop_pc = "idle"
    /\ made = 0
    /\ closed = {}

\* no text widget is followed
IdleEdit ==
    /\ widget = "none"
    /\ text = <<>>
    /\ old_state = [some |-> FALSE, v |-> 0]
    /\ last_edit = "None"
    /\ editable = FALSE
    /\ multi_line = FALSE
    /\ on_activate = "()"
    /\ clipboard = [some |-> FALSE, v |-> 0]
    /\ size_handle = "none"
    /\ edit_pc = "idle"
    /\ past = <<>>
    /\ run_kind = "None"
    /\ run_start = <<>>

IdleOther == IdleIds /\ IdleLoop /\ IdleEdit

\* solve_seq is not running
IdleSolve ==
    /\ rules = << [a |-> 0, b |-> 0] >>
    /\ target = 0
    /\ out = <<>>
    /\ pc = "idle"
    /\ sum = 0
    /\ excess = 0
    /\ largest = 0
    /\ num_equal = 0
    /\ next_largest = 0
    /\ prior = <<>>
    /\ calls = 0
    /\ first_out = <<>>

\* no SizeRules value is being operated on
IdleRules ==
    /\ sr = [a |-> 0, b |-> 0]
    /\ op = "none"
    /\ sr_pc = "run"

\* ------------------------------------------------------------ SizeRules
\* struct SizeRules { a: u32 (minimum), b: u32 (preferred) }
SizeRules(a, b) == [a |-> a, b |-> b]

Min2(x, y) == IF x < y THEN x ELSE y
Max2(x, y) == IF x > y THEN x ELSE y

RECURSIVE SumSeq(_)
SumSeq(s) == IF s = <<>> THEN 0 ELSE Head(s) + SumSeq(Tail(s))

\* the aggregate a container passes as rules[N]: the sum of the child rules
Total(rs) ==
    SizeRules(SumSeq([n \in 1..Len(rs) |-> rs[n].a]),
              SumSeq([n \in 1..Len(rs) |-> rs[n].b]))

\* u32 addition when overflow is not trapped
Wrap(x) == x % (WordMax + 1)

\* pub const EMPTY
EMPTY == SizeRules(0, 0)

\* pub fn fixed(size)
fixed(size) == SizeRules(size, size)

\* pub fn variable(min, pref), for min <= pref (it panics otherwise)
variable(min, pref) == SizeRules(min, pref)

\* pub fn max(self, rhs)
max(self, rhs) == SizeRules(Max2(self.a, rhs.a), Max2(self.b, rhs.b))

\* variant: the closing self.b = self.a.max(self.b) is missing
set_at_least_op_sub_unrestored(self, x, y) ==
    LET a1 == IF x.a > y.a THEN Max2(self.a, x.a - y.a) ELSE self.a
        b1 == IF x.b > y.b THEN Max2(self.b, x.b - y.b) ELSE self.b
    IN  SizeRules(a1, b1)

\* pub fn set_at_least_op_sub(&mut self, x, y)
set_at_least_op_sub(self, x, y) ==
    LET a1 == IF x.a > y.a THEN Max2(self.a, x.a - y.a) ELSE self.a
        b1 == IF x.b > y.b THEN Max2(self.b, x.b - y.b) ELSE self.b
    IN  SizeRules(a1, Max2(a1, b1))

\* variant: the minimum is raised to `min`
raise_min_to(self, min) == SizeRules(Max2(self.a, min), self.b)

\* pub fn reduce_min_to(&mut self, min)
reduce_min_to(self, min) == SizeRules(Min2(self.a, min), self.b)

\* impl Add<SizeRules>, impl AddAssign: a + rhs.a, b + rhs.b
add(self, rhs) == SizeRules(Wrap(self.a + rhs.a), Wrap(self.b + rhs.b))

\* impl Add<u32>: a + rhs, b + rhs
add_u32(self, rhs) == SizeRules(Wrap(self.a + rhs), Wrap(self.b + rhs))

\* one of the two additions exceeds the word
AddOverflows(self, rhs) ==
    self.a + rhs.a > WordMax \/ self.b + rhs.b > WordMax

\* variant: the test also rejects min == pref
variable_panics_equal(min, pref) == min >= pref

\* SizeRules::variable: if min > pref { panic!(..) }
variable_panics(min, pref) == min > pref

\* ------------------------------------------------------ Option<u32>
None == [some |-> FALSE, v |-> 0]
Some(v) == [some |-> TRUE, v |-> v]

\* ------------------------------------------------------------ AxisInfo
\* variant: a fixed size is recognised by being non-zero
AxisInfo_new_nonzero(vertical, fix) ==
    [vertical |-> vertical,
     has_fixed |-> fix.some /\ fix.v # 0,
     other_axis |-> IF fix.some THEN fix.v ELSE 0]

\* fn new(vertical, fixed: Option<u32>)
AxisInfo_new(vertical, fix) ==
    [vertical |-> vertical,
     has_fixed |-> fix.some,
     other_axis |-> IF fix.some THEN fix.v ELSE 0]

\* pub fn fixed(&self, vertical) -> Option<u32>
AxisInfo_fixed(self, vertical) ==
    IF vertical = self.vertical /\ self.has_fixed
        THEN Some(self.other_axis)
        ELSE None

\* pub fn extract_size(&self, size)
extract_size(self, size) == IF ~self.vertical THEN size[1] ELSE size[2]

\* ------------------------------------------------------------- Margins
\* struct Margins { first: Size, last: Size, inter: Size }, Size = (u32, u32)
Margins(first, last, inter) == [first |-> first, last |-> last, inter |-> inter]

\* variant: plain subtraction
plain_sub(x, y) == x - y

\* u32::saturating_sub
saturating_sub(x, y) == IF x > y THEN x - y ELSE 0

\* the argument of SizeRules::fixed in Margins::size_rules, before it is
\* fitted into the word
Margins_size(self, axis_info, columns, rows) ==
    IF ~axis_info.vertical
        THEN self.first[1] + self.last[1] + self.inter[1] * saturating_sub(columns, 1)
        ELSE self.first[2] + self.last[2] + self.inter[2] * saturating_sub(rows, 1)

\* ------------------------------------------------- event::err_unhandled
\* variant: assert! in place of debug_assert!
assert_fails(b) == TRUE

\* debug_assert!(false, ..) panics when debug assertions are compiled in
debug_assert_fails(b) == b = "debug"

\* pub fn err_unhandled(m) -> Response<N>
err_unhandled(b, m) ==
    IF debug_assert_fails(b)
        THEN [ret |-> [kind |-> "panic", v |-> "none"], printed |-> <<>>]
        ELSE [ret |-> [kind |-> "value", v |-> "Response::None"],
              printed |-> << <<"Handler::handle: event not handled by widget", m>> >>]

\* pub fn err_num() -> Response<N>
err_num(b) ==
    IF debug_assert_fails(b)
        THEN [ret |-> [kind |-> "panic", v |-> "none"], printed |-> <<>>]
        ELSE [ret |-> [kind |-> "value", v |-> "Response::None"],
              printed |-> << <<"Handler::handle: bad widget WidgetId">> >>]

\* ------------------------------------------------- IEEE-754 double helper
RECURSIVE Pow2(_)
Pow2(n) == IF n = 0 THEN 1 ELSE 2 * Pow2(n - 1)

RECURSIVE Pow2Mod(_, _)
Pow2Mod(s, p) ==
    IF s = 0 THEN 1 % p
    ELSE IF s % 2 = 0
        THEN LET h == Pow2Mod(s \div 2, p) IN (h * h) % p
    ELSE (2 * Pow2Mod(s - 1, p)) % p

RECURSIVE FloorLog2(_)
FloorLog2(k) == IF k < 2 THEN 0 ELSE 1 + FloorLog2(k \div 2)

RECURSIVE ShiftUntil(_, _)
ShiftUntil(t, p) == IF t >= p THEN 0 ELSE 1 + ShiftUntil(2 * t, p)

\* binary exponent of the quotient t / p (t, p > 0): floor(log2(t / p))
QuotExp(t, p) == IF t >= p THEN FloorLog2(t \div p) ELSE 0 - ShiftUntil(t, p)

\* variant: the quotient x is rounded down, so a whole share falls short
F64ScaleBelow(t, p, d) == IF t * d = 0 THEN 0 ELSE (t * d - 1) \div p

\* variant: the product is rounded to the nearest integer, not truncated
F64ScaleRound(t, p, d) == (2 * t * d + p) \div (2 * p)

\* (x * (d as f64)) as u32  with  x = t as f64 / p as f64, for p > 0, d <= p.
\* The division is rounded to a 53-bit significand: with s = 52 - QuotExp the
\* significand is t * 2^s / p rounded to nearest, so x is below the exact
\* quotient by r / (p * 2^s) when r = (t * 2^s) mod p is under p / 2, and at
\* or above it otherwise.  The product x * d is rounded again.  When the exact
\* value K = t * d / p is not an integer the two roundings are far smaller
\* than the distance to the next integer and the cast truncates to floor(K).
\* When K is an integer and x is below the quotient, the product is K minus
\* r * d / (p * 2^s); it rounds back to K unless that exceeds half the spacing
\* of doubles just below K (2^(g-53), or 2^(g-54) when K = 2^g), in which
\* case the cast yields K - 1.
F64Scale(t, p, d) ==
    LET K == (t * d) \div p
    IN  IF (t * d) % p # 0 \/ K = 0 THEN K
        ELSE LET L == QuotExp(t, p)
                 s == 52 - L
                 r == ((t % p) * Pow2Mod(s, p)) % p
                 g == FloorLog2(K)
                 e == L + 1 + (IF K = Pow2(g) THEN 1 ELSE 0)
                 lhs == IF e >= 0 THEN r * d * Pow2(e) ELSE r * d
                 rhs == IF e >= 0 THEN p * Pow2(g) ELSE p * Pow2(g) * Pow2(0 - e)
             IN  IF r = 0 \/ 2 * r > p THEN K
                 ELSE IF lhs > rhs THEN K - 1 ELSE K


\* ------------------------------------------------------------ solve_seq
Zeros(N) == [n \in 1..N |-> 0]

\* surplus, pref_rel > 0: size = r.a + (x * (r.b - r.a) as f64) as u32
SurplusProportional(o, rs, tgt) ==
    LET N == Len(o)
        target_rel == tgt - rs[N + 1].a
        pref_rel == rs[N + 1].b - rs[N + 1].a
    IN  [n \in 1..N |-> rs[n].a + F64Scale(target_rel, pref_rel, rs[n].b - rs[n].a)]

\* surplus, pref_rel == 0: size = rules[n].a + target_rel / N
SurplusEven(o, rs, tgt) ==
    LET N == Len(o)
        add_each == (tgt - rs[N + 1].a) \div N     \* the local `add`
    IN  [n \in 1..N |-> rs[n].a + add_each]

\* variant: the loop stops one child early
DistributeRemShort(o, rem) ==
    [n \in 1..Len(o) |-> IF n < rem THEN o[n] + 1 ELSE o[n]]

\* variant: the remainder goes to the last rem children
DistributeRemLast(o, rem) ==
    [n \in 1..Len(o) |-> IF n > Len(o) - rem THEN o[n] + 1 ELSE o[n]]

\* variant: the first child takes the whole remainder
DistributeRemFirst(o, rem) ==
    [n \in 1..Len(o) |-> IF n = 1 /\ rem > 0 THEN o[n] + rem ELSE o[n]]

\* for n in 0..rem { out[n] += 1 }
DistributeRem(o, rem) ==
    [n \in 1..Len(o) |-> IF n <= rem THEN o[n] + 1 ELSE o[n]]

\* the surplus branch as a function of rules and target: the sizes written by
\* the for-loop, then the remainder handed out (the assertions are taken to
\* hold)
SurplusOut(rs, tgt) ==
    LET N == Len(rs) - 1
        sizes == IF rs[N + 1].b - rs[N + 1].a > 0
                   THEN SurplusProportional(Zeros(N), rs, tgt)
                   ELSE SurplusEven(Zeros(N), rs, tgt)
    IN  DistributeRem(sizes, tgt - SumSeq(sizes))

\* variant: a child keeps what out held when that is larger
WriteMinsStale(o, rs) == [n \in 1..Len(o) |-> Max2(o[n], rs[n].a)]

\* deficit: out[n] = rules[n].a
WriteMins(o, rs) == [n \in 1..Len(o) |-> rs[n].a]

\* variant: a minimum below `largest` never updates next_largest
ScanOneNoNext(acc, a) ==
    IF a = acc.largest
        THEN [acc EXCEPT !.num_equal = acc.num_equal + 1]
    ELSE IF a > acc.largest
        THEN [largest |-> a, num_equal |-> 1, next_largest |-> acc.largest]
    ELSE acc

\* deficit: one iteration of the first for-loop on largest / num_equal /
\* next_largest
ScanOne(acc, a) ==
    IF a = acc.largest
        THEN [acc EXCEPT !.num_equal = acc.num_equal + 1]
    ELSE IF a > acc.largest
        THEN [largest |-> a, num_equal |-> 1, next_largest |-> acc.largest]
    ELSE IF a > acc.next_largest
        THEN [acc EXCEPT !.next_largest = a]
    ELSE acc

RECURSIVE ScanMins(_, _, _, _)
ScanMins(rs, N, n, acc) ==
    IF n > N THEN acc ELSE ScanMins(rs, N, n + 1, ScanOne(acc, rs[n].a))

\* variant: the step is not limited by the gap to the next tier
StepSizeNoGap(ex, ne, lg, nl) == ex \div ne

\* let step = (excess / num_equal).min(largest - next_largest)
StepSize(ex, ne, lg, nl) == Min2(ex \div ne, lg - nl)

\* variant: only the first child at `largest` is lowered
ReduceLargestOnce(o, n, lg, thresh, step, acc) ==
    IF \E k \in 1..Len(o) : o[k] = lg
        THEN LET k == CHOOSE k \in 1..Len(o) :
                          o[k] = lg /\ \A i \in 1..(k - 1) : o[i] # lg
             IN  [acc EXCEPT !.out = [o EXCEPT ![k] = o[k] - step]]
        ELSE [acc EXCEPT !.out = o]

\* deficit, step > 0: the for-loop lowering every child at `largest` by step
\* and recomputing num_add / next_largest
RECURSIVE ReduceLargest(_, _, _, _, _, _)
ReduceLargest(o, n, lg, thresh, step, acc) ==
    IF n > Len(o) THEN [acc EXCEPT !.out = o]
    ELSE IF o[n] = lg
        THEN ReduceLargest([o EXCEPT ![n] = o[n] - step], n + 1, lg, thresh, step, acc)
    ELSE IF o[n] = thresh
        THEN ReduceLargest(o, n + 1, lg, thresh, step,
                           [acc EXCEPT !.num_add = acc.num_add + 1])
    ELSE IF o[n] > acc.next_largest
        THEN ReduceLargest(o, n + 1, lg, thresh, step,
                           [acc EXCEPT !.next_largest = o[n]])
    ELSE ReduceLargest(o, n + 1, lg, thresh, step, acc)

\* variant: the loop forgets to lower excess
ExcessKept(ex, step, ne) == ex

\* excess -= step * num_equal
ExcessAfter(ex, step, ne) == ex - step * ne

\* variant: the unit loop runs from the last child to the first
RECURSIVE FallbackFromLast(_, _, _, _)
FallbackFromLast(o, n, lg, ex) ==
    LET k == Len(o) + 1 - n
    IN  IF n > Len(o) THEN [out |-> o, excess |-> ex, underflow |-> FALSE]
        ELSE IF o[k] = lg
            THEN IF o[k] = 0 THEN [out |-> o, excess |-> ex, underflow |-> TRUE]
                 ELSE IF ex = 0
                     THEN [out |-> [o EXCEPT ![k] = o[k] - 1], excess |-> ex,
                           underflow |-> FALSE]
                 ELSE FallbackFromLast([o EXCEPT ![k] = o[k] - 1], n + 1, lg,
                                       ex - 1)
        ELSE FallbackFromLast(o, n + 1, lg, ex)

\* deficit, step == 0: the for-loop taking one unit at a time from the
\* children at `largest`; underflow is set when out[n] -= 1 meets 0
RECURSIVE Fallback(_, _, _, _)
Fallback(o, n, lg, ex) ==
    IF n > Len(o) THEN [out |-> o, excess |-> ex, underflow |-> FALSE]
    ELSE IF o[n] = lg
        THEN IF o[n] = 0 THEN [out |-> o, excess |-> ex, underflow |-> TRUE]
             ELSE IF ex = 0
                 THEN [out |-> [o EXCEPT ![n] = o[n] - 1], excess |-> ex,
                       underflow |-> FALSE]
             ELSE Fallback([o EXCEPT ![n] = o[n] - 1], n + 1, lg, ex - 1)
    ELSE Fallback(o, n + 1, lg, ex)

\* ------------------------------------------------------------------ inputs
RulePairs == { r \in [a : 0..MaxSize, b : 0..MaxSize] : r.a <= r.b }

GridChildren == UNION { [1..n -> RulePairs] : n \in 0..MaxN }

\* child rules with larger sizes: the two worked scenarios of the layout
\* documentation and two lists whose proportional shares are whole numbers
\* that the double arithmetic does not reproduce exactly
ScenarioChildren ==
    { << SizeRules(10, 20), SizeRules(10, 30) >>,
      << SizeRules(10, 10), SizeRules(10, 10), SizeRules(10, 10) >>,
      << SizeRules(0, 11), SizeRules(0, 5), SizeRules(0, 6) >>,
      << SizeRules(2, 13) >> }

Targets(cs) ==
    IF cs \in GridChildren THEN 0..(Total(cs).b + MaxOver)
    ELSE 0..(2 * Total(cs).b)

Init ==
    /\ \E cs \in GridChildren \cup ScenarioChildren :
         /\ rules = Append(cs, Total(cs))
         /\ target \in Targets(cs)
         /\ out = Zeros(Len(cs))
    /\ pc = "call"
    /\ sum = 0
    /\ excess = 0
    /\ largest = 0
    /\ num_equal = 0
    /\ next_largest = 0
    /\ prior = out
    /\ calls = 1
    /\ first_out = <<>>
    /\ sr = EMPTY
    /\ op = "none"
    /\ build = "debug"
    /\ sr_pc = "run"
    /\ IdleCalls
    /\ IdleOther

\* ----------------------------------------------------------------- actions
\* if N == 0 { return; }
ReturnEmpty ==
    /\ pc = "call"
    /\ UNCHANGED nonSolveVars
    /\ Len(out) = 0
    /\ pc' = "done"
    /\ UNCHANGED <<rules, target, out, sum, excess, largest, num_equal,
                   next_largest, prior, calls, first_out>>

\* target >= rules[N].a: the sizes before the remainder is handed out
Surplus ==
    LET N == Len(out) IN
    /\ pc = "call"
    /\ UNCHANGED nonSolveVars
    /\ N > 0
    /\ target >= rules[N + 1].a
    /\ IF rules[N + 1].b < rules[N + 1].a
         THEN pc' = "panic" /\ UNCHANGED <<out, sum>>
         ELSE LET sizes == IF rules[N + 1].b - rules[N + 1].a > 0
                             THEN SurplusProportional(out, rules, target)
                             ELSE SurplusEven(out, rules, target)
              IN  /\ out' = sizes
                  /\ sum' = SumSeq(sizes)
                  /\ pc' = "check"
    /\ UNCHANGED <<rules, target, excess, largest, num_equal, next_largest,
                   prior, calls, first_out>>

\* assert!(sum <= target); rem = target - sum; assert!(rem <= N); hand out rem
Remainder ==
    LET N == Len(out) IN
    /\ pc = "check"
    /\ UNCHANGED nonSolveVars
    /\ IF sum > target \/ target - sum > N
         THEN pc' = "panic" /\ UNCHANGED out
         ELSE out' = DistributeRem(out, target - sum) /\ pc' = "done"
    /\ UNCHANGED <<rules, target, sum, excess, largest, num_equal,
                   next_largest, prior, calls, first_out>>

\* target < rules[N].a: start every child at its minimum
DeficitScan ==
    LET N == Len(out)
        acc == ScanMins(rules, N, 1,
                        [largest |-> 0, num_equal |-> 0, next_largest |-> 0])
    IN
    /\ pc = "call"
    /\ UNCHANGED nonSolveVars
    /\ N > 0
    /\ target < rules[N + 1].a
    /\ excess' = rules[N + 1].a - target
    /\ out' = WriteMins(out, rules)
    /\ largest' = acc.largest
    /\ num_equal' = acc.num_equal
    /\ next_largest' = acc.next_largest
    /\ pc' = "loop"
    /\ UNCHANGED <<rules, target, sum, prior, calls, first_out>>

\* one iteration of `while excess > 0` with step > 0
DeficitStep ==
    /\ pc = "loop"
    /\ UNCHANGED nonSolveVars
    /\ excess > 0
    /\ IF num_equal = 0 \/ largest < next_largest
         THEN /\ pc' = "panic"
              /\ UNCHANGED <<out, excess, largest, num_equal, next_largest>>
         ELSE LET step == StepSize(excess, num_equal, largest, next_largest)
                  res == ReduceLargest(out, 1, largest, next_largest, step,
                                       [out |-> out, num_add |-> 0,
                                        next_largest |-> 0])
              IN  /\ step > 0
                  /\ IF step * num_equal > excess \/ step > largest
                       THEN /\ pc' = "panic"
                            /\ UNCHANGED <<out, excess, largest, num_equal,
                                           next_largest>>
                       ELSE /\ out' = res.out
                            /\ excess' = ExcessAfter(excess, step, num_equal)
                            /\ largest' = largest - step
                            /\ num_equal' = num_equal + res.num_add
                            /\ next_largest' = res.next_largest
                            /\ pc' = "loop"
    /\ UNCHANGED <<rules, target, sum, prior, calls, first_out>>

\* the iteration of `while excess > 0` with step == 0, which ends the loop
DeficitFallback ==
    /\ pc = "loop"
    /\ UNCHANGED nonSolveVars
    /\ excess > 0
    /\ num_equal > 0
    /\ largest >= next_largest
    /\ StepSize(excess, num_equal, largest, next_largest) = 0
    /\ LET res == Fallback(out, 1, largest, excess)
       IN  IF res.underflow
             THEN pc' = "panic" /\ UNCHANGED <<out, excess>>
             ELSE out' = res.out /\ excess' = res.excess /\ pc' = "done"
    /\ UNCHANGED <<rules, target, sum, largest, num_equal, next_largest,
                   prior, calls, first_out>>

\* `while excess > 0` ends
DeficitExit ==
    /\ pc = "loop"
    /\ UNCHANGED nonSolveVars
    /\ excess = 0
    /\ pc' = "done"
    /\ UNCHANGED <<rules, target, out, sum, excess, largest, num_equal,
                   next_largest, prior, calls, first_out>>

\* the caller repeats the call with the same rules and target; its buffer
\* holds either the previous result or unrelated values
Recall ==
    /\ pc = "done"
    /\ UNCHANGED nonSolveVars
    /\ calls = 1
    /\ first_out' = out
    /\ out' \in {out, [n \in 1..Len(out) |-> Stale]}
    /\ prior' = out'
    /\ calls' = 2
    /\ pc' = "call"
    /\ sum' = 0
    /\ excess' = 0
    /\ largest' = 0
    /\ num_equal' = 0
    /\ next_largest' = 0
    /\ UNCHANGED <<rules, target>>

Next ==
    \/ ReturnEmpty
    \/ Surplus
    \/ Remainder
    \/ DeficitScan
    \/ DeficitStep
    \/ DeficitFallback
    \/ DeficitExit
    \/ Recall

Spec == Init /\ [][Next]_vars

\* one call of solve_seq, from entry to return
NextOnce ==
    \/ ReturnEmpty
    \/ Surplus
    \/ Remainder
    \/ DeficitScan
    \/ DeficitStep
    \/ DeficitFallback
    \/ DeficitExit

SpecOnce == Init /\ [][NextOnce]_vars

\* the inputs of the runs checked for termination: the while loop reads the
\* minimums only, so the grid holds the children with pref == min, and the
\* documented scenarios are kept
FairChildren ==
    UNION { [1..n -> { r \in RulePairs : r.a = r.b }] : n \in 0..MaxN }
        \cup ScenarioChildren

InitFair ==
    /\ \E cs \in FairChildren :
         /\ rules = Append(cs, Total(cs))
         /\ target \in Targets(cs)
         /\ out = Zeros(Len(cs))
    /\ pc = "call"
    /\ sum = 0
    /\ excess = 0
    /\ largest = 0
    /\ num_equal = 0
    /\ next_largest = 0
    /\ prior = out
    /\ calls = 1
    /\ first_out = <<>>
    /\ sr = EMPTY
    /\ op = "none"
    /\ build = "debug"
    /\ sr_pc = "run"
    /\ IdleCalls
    /\ IdleOther

\* solve_seq is sequential code: a statement that can run does run, and the
\* caller that repeats the call does repeat it
SpecFair == InitFair /\ [][Next]_vars /\ WF_vars(Next)

\* ------------------------------------------- SizeRules value operations
ValidRules == { r \in [a : 0..WordMax, b : 0..WordMax] : r.a <= r.b }

InitRules ==
    /\ rules = << EMPTY >>
    /\ target = 0
    /\ out = <<>>
    /\ pc = "idle"
    /\ sum = 0
    /\ excess = 0
    /\ largest = 0
    /\ num_equal = 0
    /\ next_largest = 0
    /\ prior = <<>>
    /\ calls = 0
    /\ first_out = <<>>
    /\ sr = EMPTY
    /\ op = "EMPTY"
    /\ build \in {"debug", "release"}
    /\ sr_pc = "run"
    /\ IdleCalls
    /\ IdleOther

\* the operations take operands that satisfy b >= a
Operable == sr_pc = "run" /\ sr \in ValidRules

OpFixed ==
    /\ sr_pc = "run"
    /\ \E n \in 0..WordMax : sr' = fixed(n)
    /\ op' = "fixed"
    /\ UNCHANGED <<build, sr_pc>>
    /\ UNCHANGED nonRulesVars

OpVariable ==
    /\ sr_pc = "run"
    /\ \E min \in 0..WordMax, pref \in 0..WordMax :
         IF min > pref
           THEN sr_pc' = "panic" /\ UNCHANGED sr
           ELSE sr' = variable(min, pref) /\ UNCHANGED sr_pc
    /\ op' = "variable"
    /\ UNCHANGED build
    /\ UNCHANGED nonRulesVars

OpMax ==
    /\ Operable
    /\ \E rhs \in ValidRules : sr' = max(sr, rhs)
    /\ op' = "max"
    /\ UNCHANGED <<build, sr_pc>>
    /\ UNCHANGED nonRulesVars

\* self + rhs and self += rhs
OpAdd ==
    /\ Operable
    /\ \E rhs \in ValidRules :
         IF AddOverflows(sr, rhs) /\ build = "debug"
           THEN sr_pc' = "panic" /\ UNCHANGED sr
           ELSE sr' = add(sr, rhs) /\ UNCHANGED sr_pc
    /\ op' = "add"
    /\ UNCHANGED build
    /\ UNCHANGED nonRulesVars

OpAddU32 ==
    /\ Operable
    /\ \E rhs \in 0..WordMax :
         IF AddOverflows(sr, fixed(rhs)) /\ build = "debug"
           THEN sr_pc' = "panic" /\ UNCHANGED sr
           ELSE sr' = add_u32(sr, rhs) /\ UNCHANGED sr_pc
    /\ op' = "add_u32"
    /\ UNCHANGED build
    /\ UNCHANGED nonRulesVars

OpSetAtLeastOpSub ==
    /\ Operable
    /\ \E x \in ValidRules, y \in ValidRules : sr' = set_at_least_op_sub(sr, x, y)
    /\ op' = "set_at_least_op_sub"
    /\ UNCHANGED <<build, sr_pc>>
    /\ UNCHANGED nonRulesVars

OpReduceMinTo ==
    /\ Operable
    /\ \E min \in 0..WordMax : sr' = reduce_min_to(sr, min)
    /\ op' = "reduce_min_to"
    /\ UNCHANGED <<build, sr_pc>>
    /\ UNCHANGED nonRulesVars

NextRules ==
    \/ OpFixed
    \/ OpVariable
    \/ OpMax
    \/ OpAdd
    \/ OpAddU32
    \/ OpSetAtLeastOpSub
    \/ OpReduceMinTo

SpecRules == InitRules /\ [][NextRules]_vars

\* ------------------------------------------------------- single calls
\* one call of a function of the library on arguments drawn from the word
Sizes == { <<w, h>> : w \in 0..MaxMargin, h \in 0..MaxMargin }
Options == {None} \cup { Some(v) : v \in 0..WordMax }

Value(v) == [kind |-> "value", v |-> v]
Panic == [kind |-> "panic", v |-> "none"]

InitCalls ==
    /\ rules = << EMPTY >>
    /\ target = 0
    /\ out = <<>>
    /\ pc = "idle"
    /\ sum = 0
    /\ excess = 0
    /\ largest = 0
    /\ num_equal = 0
    /\ next_largest = 0
    /\ prior = <<>>
    /\ calls = 0
    /\ first_out = <<>>
    /\ sr = EMPTY
    /\ op = "none"
    /\ build \in {"debug", "release"}
    /\ sr_pc = "run"
    /\ \/ \E n \in 0..WordMax : call = [fn |-> "SizeRules::fixed", n |-> n]
       \/ \E min \in 0..WordMax, pref \in 0..WordMax :
             call = [fn |-> "SizeRules::variable", min |-> min, pref |-> pref]
       \/ \E self \in ValidRules, x \in ValidRules, y \in ValidRules :
             call = [fn |-> "SizeRules::set_at_least_op_sub",
                     self |-> self, x |-> x, y |-> y]
       \/ \E self \in ValidRules, min \in 0..WordMax :
             call = [fn |-> "SizeRules::reduce_min_to", self |-> self, min |-> min]
       \/ \E first \in Sizes, last \in Sizes, inter \in Sizes,
             vertical \in BOOLEAN, columns \in 0..MaxCount, rows \in 0..MaxCount :
             call = [fn |-> "Margins::size_rules",
                     self |-> Margins(first, last, inter),
                     vertical |-> vertical, columns |-> columns, rows |-> rows]
       \/ \E vertical \in BOOLEAN, fix \in Options, v \in BOOLEAN :
             call = [fn |-> "AxisInfo::fixed", vertical |-> vertical,
                     fixed |-> fix, v |-> v]
       \/ \E m \in {"Action::Close", "Event::Identify"} :
             call = [fn |-> "err_unhandled", m |-> m]
       \/ call = [fn |-> "err_num"]
    /\ ret = [kind |-> "none"]
    /\ printed = <<>>
    /\ IdleOther

Pending(fn) == call.fn = fn /\ ret.kind = "none"

CallFixed ==
    /\ Pending("SizeRules::fixed")
    /\ ret' = Value(fixed(call.n))
    /\ UNCHANGED <<solveVars, rulesVars, otherVars, call, printed>>

CallVariable ==
    /\ Pending("SizeRules::variable")
    /\ ret' = IF variable_panics(call.min, call.pref)
                 THEN Panic
                 ELSE Value(variable(call.min, call.pref))
    /\ UNCHANGED <<solveVars, rulesVars, otherVars, call, printed>>

CallSetAtLeastOpSub ==
    /\ Pending("SizeRules::set_at_least_op_sub")
    /\ ret' = Value(set_at_least_op_sub(call.self, call.x, call.y))
    /\ UNCHANGED <<solveVars, rulesVars, otherVars, call, printed>>

CallReduceMinTo ==
    /\ Pending("SizeRules::reduce_min_to")
    /\ ret' = Value(reduce_min_to(call.self, call.min))
    /\ UNCHANGED <<solveVars, rulesVars, otherVars, call, printed>>

\* SizeRules::fixed(first + last + inter * count.saturating_sub(1)); the sum
\* of non-negative terms overflows the word exactly when it exceeds it
CallMarginsSizeRules ==
    /\ Pending("Margins::size_rules")
    /\ LET size == Margins_size(call.self, AxisInfo_new(call.vertical, None),
                                call.columns, call.rows)
       IN  ret' = IF size \notin 0..WordMax /\ build = "debug"
                    THEN Panic
                    ELSE Value(fixed(Wrap(size)))
    /\ UNCHANGED <<solveVars, rulesVars, otherVars, call, printed>>

CallAxisInfoFixed ==
    /\ Pending("AxisInfo::fixed")
    /\ ret' = Value(AxisInfo_fixed(AxisInfo_new(call.vertical, call.fixed), call.v))
    /\ UNCHANGED <<solveVars, rulesVars, otherVars, call, printed>>

CallErrUnhandled ==
    /\ Pending("err_unhandled")
    /\ ret' = err_unhandled(build, call.m).ret
    /\ printed' = printed \o err_unhandled(build, call.m).printed
    /\ UNCHANGED <<solveVars, rulesVars, otherVars, call>>

CallErrNum ==
    /\ Pending("err_num")
    /\ ret' = err_num(build).ret
    /\ printed' = printed \o err_num(build).printed
    /\ UNCHANGED <<solveVars, rulesVars, otherVars, call>>

NextCalls ==
    \/ CallFixed
    \/ CallVariable
    \/ CallSetAtLeastOpSub
    \/ CallReduceMinTo
    \/ CallMarginsSizeRules
    \/ CallAxisInfoFixed
    \/ CallErrUnhandled
    \/ CallErrNum

SpecCalls == InitCalls /\ [][NextCalls]_vars

\* ------------------------------------------------------------ WidgetId
\* struct WidgetId(NonZeroU32); the word is scaled to 0..IdMax
LAST == IdMax

\* variant: zero is replaced by the smallest non-zero value
NonZeroU32_new_clamped(n) == Some(IF n = 0 THEN 1 ELSE n)

\* NonZeroU32::new(n) -> Option<NonZeroU32>
NonZeroU32_new(n) == IF n = 0 THEN None ELSE Some(n)

\* pub(crate) fn next(self): WidgetId(NonZeroU32::new(self.0.get() + 1).unwrap())
WidgetId_next(b, self) ==
    LET plus == self + 1
    IN  IF plus > IdMax /\ b = "debug"
            THEN Panic                    \* attempt to add with overflow
            ELSE LET id == NonZeroU32_new(plus % (IdMax + 1))
                 IN  IF id.some THEN Value(id.v)
                                ELSE Panic    \* unwrap() on None

\* identifiers are handed out from FIRST; a default WidgetId is LAST
InitIds ==
    /\ IdleSolve
    /\ IdleRules
    /\ build \in {"debug", "release"}
    /\ IdleCalls
    /\ wid \in {FIRST, LAST}
    /\ issued = <<wid>>
    /\ wid_pc = "run"
    /\ IdleLoop
    /\ IdleEdit

NextId ==
    /\ wid_pc = "run"
    /\ LET r == WidgetId_next(build, wid)
       IN  IF r.kind = "panic"
               THEN wid_pc' = "panic" /\ UNCHANGED <<wid, issued>>
               ELSE /\ wid' = r.v
                    /\ issued' = Append(issued, r.v)
                    /\ UNCHANGED wid_pc
    /\ UNCHANGED <<solveVars, rulesVars, callVars, loopVars, editVars>>

SpecIds == InitIds /\ [][NextId]_vars

\* ----------------------------------------------- kas-wgpu event loop (Loop)
\* enum TkAction
TkActions == {"None", "Redraw", "Reconfigure", "Close", "CloseAll"}

Instants == 1..MaxInstant

\* Option<Instant>, as Window::init and Window::timer_resume return it
OptInstants == {None} \cup { Some(t) : t \in Instants }

\* an entry of resumes: (Instant, usize), and the window that asked for it
Resume(at, idx, by) == [at |-> at, idx |-> idx, by |-> by]

\* the place of e among entries sorted by their instant: after every entry
\* that is not later (the sort is stable)
RECURSIVE InsertByKey(_, _)
InsertByKey(e, sorted) ==
    IF sorted = <<>> THEN <<e>>
    ELSE IF Head(sorted).at <= e.at
        THEN <<Head(sorted)>> \o InsertByKey(e, Tail(sorted))
        ELSE <<e>> \o sorted

\* self.resumes.sort_by_key(|item| item.0)
RECURSIVE sort_by_key(_)
sort_by_key(rs) ==
    IF rs = <<>> THEN <<>>
    ELSE InsertByKey(rs[Len(rs)], sort_by_key(SubSeq(rs, 1, Len(rs) - 1)))

\* Vec::remove(i), i counted from 0
Remove(v, i) == SubSeq(v, 1, i) \o SubSeq(v, i + 2, Len(v))

WaitUntil(at) == [kind |-> "WaitUntil", at |-> at]

\* for (i, window) in windows { if let Some(instant) = window.init()
\*     { resumes.push((instant, i)) } }, for the windows from index `from`
RECURSIVE PushInits(_, _, _, _)
PushInits(rs, ws, from, inits) ==
    IF inits = <<>> THEN rs
    ELSE PushInits(IF Head(inits).some
                       THEN Append(rs, Resume(Head(inits).v, from, ws[from + 1]))
                       ELSE rs,
                   ws, from + 1, Tail(inits))

\* for resume in &mut self.resumes { if resume.1 >= i { resume.1 -= 1; } }
\* (a decrement at 0 wraps to the largest index where overflow is not trapped)
CloseShift(rs, i) ==
    [k \in 1..Len(rs) |->
        IF rs[k].idx >= i
            THEN [rs[k] EXCEPT !.idx = (rs[k].idx + UsizeMax) % (UsizeMax + 1)]
            ELSE rs[k]]

\* some resume.1 -= 1 is evaluated at 0
CloseUnderflows(rs, i) == i = 0 /\ \E k \in 1..Len(rs) : rs[k].idx = 0

\* the windows a handler may still be given to create
NewWindowInits ==
    { <<>> } \cup { <<o>> : o \in OptInstants }

\* the tail of Loop::handle: create the new windows, then act on `action`
\* for window i
Finish(ws, rs, cf, i, action, new_inits) ==
    LET ids == [k \in 1..Len(new_inits) |-> made + k]
        ws1 == ws \o ids
        rs1 == PushInits(rs, ws1, Len(ws), new_inits)
        have_new_resumes == rs1 # rs
        rs2 == IF have_new_resumes THEN sort_by_key(rs1) ELSE rs1
        cf2 == IF have_new_resumes THEN WaitUntil(rs2[1].at) ELSE cf
    IN  /\ made' = made + Len(new_inits)
        /\ IF action = "Close"
             THEN /\ windows' = Remove(ws1, i)
                  /\ closed' = closed \cup {ws1[i + 1]}
                  /\ IF Len(ws1) = 1
                       THEN /\ control_flow' = [kind |-> "Exit"]
                            /\ resumes' = rs2
                            /\ loop_pc' = "exit"
                       ELSE /\ control_flow' = cf2
                            /\ IF CloseUnderflows(rs2, i) /\ build = "debug"
                                 THEN /\ loop_pc' = "panic: subtract with overflow"
                                      /\ resumes' = rs2
                                 ELSE /\ resumes' = CloseShift(rs2, i)
                                      /\ UNCHANGED loop_pc
             ELSE /\ windows' = ws1
                  /\ resumes' = rs2
                  /\ UNCHANGED closed
                  /\ IF action = "CloseAll"
                       THEN control_flow' = [kind |-> "Exit"] /\ loop_pc' = "exit"
                       ELSE control_flow' = cf2 /\ UNCHANGED loop_pc

\* Loop::new(windows, shared); winit starts from ControlFlow::Poll
InitLoop ==
    /\ IdleSolve
    /\ IdleRules
    /\ build \in {"debug", "release"}
    /\ IdleCalls
    /\ IdleIds
    /\ made \in 1..MaxWindows
    /\ windows = [k \in 1..made |-> k]
    /\ resumes = <<>>
    /\ control_flow = [kind |-> "Poll"]
    /\ loop_pc = "start"
    /\ closed = {}
    /\ IdleEdit

nonLoopVars == <<solveVars, rulesVars, callVars, idsVars, editVars>>

\* Event::NewEvents(StartCause::Init)
HandleInit ==
    /\ loop_pc = "start"
    /\ \E inits \in [1..Len(windows) -> OptInstants] :
         LET rs == sort_by_key(PushInits(resumes, windows, 0, inits))
         IN  /\ resumes' = rs
             /\ control_flow' = IF rs # <<>> THEN WaitUntil(rs[1].at)
                                             ELSE [kind |-> "Wait"]
    /\ loop_pc' = "run"
    /\ UNCHANGED <<windows, made, closed>>
    /\ UNCHANGED nonLoopVars

\* Event::WindowEvent { window_id, event } for an open window
HandleWindowEvent ==
    /\ loop_pc = "run"
    /\ \E i \in 0..(Len(windows) - 1), action \in TkActions,
          new_inits \in NewWindowInits :
         /\ made + Len(new_inits) <= MaxWindows
         /\ Finish(windows, resumes, control_flow, i, action, new_inits)
    /\ UNCHANGED nonLoopVars

\* Event::NewEvents(StartCause::ResumeTimeReached { requested_resume, .. }),
\* which winit delivers for the instant it was told to wait until
HandleResumeTimeReached ==
    /\ loop_pc = "run"
    /\ control_flow.kind = "WaitUntil"
    /\ LET requested_resume == control_flow.at
       IN  IF resumes = <<>>
             THEN /\ loop_pc' = "panic: timer wakeup without resume"
                  /\ UNCHANGED <<windows, resumes, control_flow, made, closed>>
           ELSE IF resumes[1].at # requested_resume
             THEN /\ loop_pc' = "panic: assert_eq"
                  /\ UNCHANGED <<windows, resumes, control_flow, made, closed>>
           ELSE IF resumes[1].idx >= Len(windows)
             THEN /\ loop_pc' = "panic: index out of bounds"
                  /\ UNCHANGED <<windows, resumes, control_flow, made, closed>>
           ELSE \E action \in TkActions, resume \in OptInstants :
                  LET item == resumes[1]
                      rs == IF resume.some
                              THEN sort_by_key(
                                     <<Resume(resume.v, item.idx, windows[item.idx + 1])>>
                                         \o Tail(resumes))
                              ELSE Remove(resumes, 0)
                      cf == IF resume.some THEN WaitUntil(rs[1].at)
                                           ELSE control_flow
                  IN  Finish(windows, rs, cf, item.idx, action, <<>>)
    /\ UNCHANGED nonLoopVars

NextLoop ==
    \/ HandleInit
    \/ HandleWindowEvent
    \/ HandleResumeTimeReached

SpecLoop == InitLoop /\ [][NextLoop]_vars

\* ------------------------------------------------- text widgets (text.rs)
\* chars are code points; a String is the sequence of its chars
\* variant: only the chars below U+0020 are taken for control chars
IsControl_C0(c) == c < 32

\* c < '\u{20}' || (c >= '\u{7f}' && c <= '\u{9f}'), also on bytes
IsControl(c) == c < 32 \/ (c >= 127 /\ c <= 159)

\* the UTF-8 encoding of a char (up to three bytes)
utf8(c) ==
    IF c < 128 THEN <<c>>
    ELSE IF c < 2048 THEN <<192 + (c \div 64), 128 + (c % 64)>>
    ELSE <<224 + (c \div 4096), 128 + ((c \div 64) % 64), 128 + (c % 64)>>

\* str::as_bytes
RECURSIVE as_bytes(_)
as_bytes(s) == IF s = <<>> THEN <<>> ELSE utf8(Head(s)) \o as_bytes(Tail(s))

\* let mut end = content.len(); for (i, b) in bytes { if b < 0x20 ||
\* (b >= 0x7f && b <= 0x9f) { end = i; break; } }
RECURSIVE CutEnd(_, _)
CutEnd(bytes, i) ==
    IF bytes = <<>> THEN i
    ELSE IF IsControl(Head(bytes)) THEN i
    ELSE CutEnd(Tail(bytes), i + 1)

\* the chars of s that lie wholly in its first `end` bytes
RECURSIVE CharsBefore(_, _)
CharsBefore(s, end) ==
    IF s = <<>> \/ Len(utf8(Head(s))) > end THEN <<>>
    ELSE <<Head(s)>> \o CharsBefore(Tail(s), end - Len(utf8(Head(s))))

\* str::is_char_boundary(end)
is_char_boundary(s, end) == Len(as_bytes(CharsBefore(s, end))) = end

\* struct EditBox (and Label, which has the text alone)
Self ==
    [text |-> text, old_state |-> old_state, last_edit |-> last_edit,
     editable |-> editable, multi_line |-> multi_line]

\* if self.last_edit != kind { self.old_state = Some(self.text.clone());
\*                             self.last_edit = kind; }
SaveState(self, kind) ==
    IF self.last_edit # kind
        THEN [self EXCEPT !.old_state = Some(self.text), !.last_edit = kind]
        ELSE self

\* String::pop
Pop(s) == IF s = <<>> THEN s ELSE SubSeq(s, 1, Len(s) - 1)

\* variant: last_edit is left as it is
UndoKeepsLastEdit(self) ==
    IF self.old_state.some
        THEN [self EXCEPT !.text = self.old_state.v,
                          !.old_state = Some(self.text)]
        ELSE self

\* '\u{1A}': if let Some(state) = self.old_state.as_mut()
\*     { std::mem::swap(state, &mut self.text); self.last_edit = None; }
Undo(self) ==
    IF self.old_state.some
        THEN [self EXCEPT !.text = self.old_state.v,
                          !.old_state = Some(self.text),
                          !.last_edit = "None"]
        ELSE self

\* '\u{16}': the text after the paste, or that the slice panics
Paste(self, clip) ==
    LET saved == SaveState(self, "Paste")
    IN  IF ~clip.some THEN [self |-> saved, panic |-> FALSE]
        ELSE LET end == CutEnd(as_bytes(clip.v), 0)
             IN  IF is_char_boundary(clip.v, end)
                     THEN [self |-> [saved EXCEPT
                                       !.text = @ \o CharsBefore(clip.v, end)],
                           panic |-> FALSE]
                     ELSE [self |-> saved, panic |-> TRUE]

\* fn received_char(&mut self, tk, c) -> bool: the widget and the clipboard
\* afterwards, the value returned, whether tk.redraw was called
Received(self, clip, r, redraw, panic) ==
    [self |-> self, clip |-> clip, ret |-> r, redraw |-> redraw, panic |-> panic]

received_char(self, clip, c) ==
    IF ~self.editable THEN Received(self, clip, FALSE, FALSE, FALSE)
    ELSE IF IsControl(c) THEN
        IF c = 3 THEN Received(self, Some(self.text), FALSE, TRUE, FALSE)
        ELSE IF c = 8 THEN
            LET saved == SaveState(self, "Backspace")
            IN  Received([saved EXCEPT !.text = Pop(@)], clip, FALSE, TRUE, FALSE)
        ELSE IF c = 13 THEN Received(self, clip, TRUE, FALSE, FALSE)
        ELSE IF c = 22 THEN
            LET p == Paste(self, clip)
            IN  Received(p.self, clip, FALSE, ~p.panic, p.panic)
        ELSE IF c = 26 THEN Received(Undo(self), clip, FALSE, TRUE, FALSE)
        ELSE IF c = 127 THEN
            LET saved == SaveState(self, "Clear")
            IN  Received([saved EXCEPT !.text = <<>>], clip, FALSE, TRUE, FALSE)
        ELSE Received(self, clip, FALSE, TRUE, FALSE)
    ELSE LET saved == SaveState(self, "Insert")
         IN  Received([saved EXCEPT !.text = Append(@, c)], clip, FALSE, TRUE, FALSE)

\* SizeHandle::edit_surround and SizeHandle::text_bound belong to the theme:
\* a size handle is its surround and the advance and height of a glyph
edit_surround(h) == h.surround

text_bound(h, s, class, multi, axis) ==
    IF axis.vertical
        THEN fixed(h.glyph[2])
        ELSE LET line == Len(s) * h.glyph[1]
             IN  IF multi THEN SizeRules(Min2(line, h.glyph[1]), line)
                          ELSE fixed(line)

\* what size_rules gives back: the widget afterwards, the rules, and
\* whether an addition exceeded the word
Sized(self, rs, overflow) == [self |-> self, ret |-> rs, overflow |-> overflow]

\* Label::size_rules
Label_size_rules(self, h, axis) ==
    Sized(self, text_bound(h, self.text, "Label", TRUE, axis), FALSE)

\* variant: the text measured is dropped afterwards
EditBox_size_rules_takes_text(self, h, axis) ==
    LET sides == edit_surround(h)
        frame == fixed(extract_size(axis, <<sides[1][1] + sides[2][1],
                                            sides[1][2] + sides[2][2]>>))
        bound == text_bound(h, self.text, "Edit", self.multi_line, axis)
    IN  Sized([self EXCEPT !.text = <<>>], add(frame, bound),
              AddOverflows(frame, bound))

\* EditBox::size_rules
EditBox_size_rules(self, h, axis) ==
    LET sides == edit_surround(h)
        frame == fixed(extract_size(axis, <<sides[1][1] + sides[2][1],
                                            sides[1][2] + sides[2][2]>>))
        bound == text_bound(h, self.text, "Edit", self.multi_line, axis)
    IN  Sized(self, add(frame, bound), AddOverflows(frame, bound))

\* ----------------------------------------------------- inputs (text.rs)
\* copy, backspace, tab, carriage return, paste, undo, delete
ControlChars == {3, 8, 9, 13, 22, 26, 127}

\* the chars received: 'a' and the control chars
InputChars == {97} \cup ControlChars

\* the strings set_string is called with
Texts == { <<>>, <<97>> }

\* what another program may have left on the clipboard: nothing, "a",
\* "a\ta", U+00C0 (bytes C3 80), 'a' U+0085 (bytes 61 C2 85), U+00E9 'a'
\* (bytes C3 A9 61)
ClipContents ==
    { <<>>, <<97>>, <<97, 9, 97>>, <<192>>, <<97, 133>>, <<233, 97>> }

SizeHandles ==
    { [surround |-> << <<1, 1>>, <<1, 0>> >>, glyph |-> <<1, 2>>] }

Axes == { AxisInfo_new(v, None) : v \in BOOLEAN }

\* EditBox::new(text)
EditBoxes_new == [multi_line |-> FALSE, on_activate |-> "()"]

\* EditBox::new(text), and EditBox::new(text).multi_line(true).on_activate(f)
EditBoxes == { EditBoxes_new, [multi_line |-> TRUE, on_activate |-> "closure"] }

\* Action::ReceivedCharacter('\u{1A}')
UndoInput == <<"ReceivedCharacter", 26>>

\* the record of an operation: what was asked, what it gave back and, for
\* an undo and for size_rules, the widget it found
Done(what, gave) ==
    [op |-> what, gave |-> gave,
     found |-> IF what = UndoInput \/ what[1] = "size_rules"
                 THEN Self
                 ELSE "none"]

\* the operation before the last is kept while an undo or size_rules is
\* repeated
Remember(what, gave) ==
    IF past # <<>> /\ past[1].op = what
                   /\ (what = UndoInput \/ what[1] = "size_rules")
        THEN <<Done(what, gave), past[1]>>
        ELSE <<Done(what, gave)>>

EditKind(c) ==
    IF c = 8 THEN "Backspace"
    ELSE IF c = 22 THEN "Paste"
    ELSE IF c = 127 THEN "Clear"
    ELSE IF ~IsControl(c) THEN "Insert"
    ELSE "None"

\* Label::new(text); EditBox::new(text).editable(..).multi_line(..), with or
\* without on_activate(f)
InitEdit ==
    /\ IdleSolve
    /\ IdleRules
    /\ build = "debug"
    /\ IdleCalls
    /\ IdleIds
    /\ IdleLoop
    /\ widget \in {"Label", "EditBox"}
    /\ text \in {<<>>, <<97>>}
    /\ old_state = None
    /\ last_edit = "None"
    /\ editable = (widget = "EditBox")
    /\ \E made_as \in IF widget = "EditBox" THEN EditBoxes ELSE {EditBoxes_new} :
         /\ multi_line = made_as.multi_line
         /\ on_activate = made_as.on_activate
    /\ clipboard \in IF widget = "EditBox"
                       THEN {None} \cup { Some(c) : c \in ClipContents }
                       ELSE {None}
    /\ size_handle \in SizeHandles
    /\ edit_pc = "run"
    /\ past = <<>>
    /\ run_kind = "None"
    /\ run_start = <<>>

nonEditVars == <<solveVars, rulesVars, callVars, idsVars, loopVars>>

\* Handler::handle_action(tk, Action::ReceivedCharacter(c)) of an EditBox
\* (both impls): self.received_char(tk, c), then the closure when it
\* returned true
HandleReceivedCharacter ==
    /\ edit_pc = "run"
    /\ widget = "EditBox"
    /\ \E c \in InputChars :
         LET r == received_char(Self, clipboard, c)
             called == r.ret /\ on_activate = "closure"
             gave == [response |-> IF called THEN <<"Msg", r.self.text>>
                                             ELSE <<"None">>,
                      called |-> called,
                      redraw |-> r.redraw,
                      ret |-> r.ret]
             edit == IF editable THEN EditKind(c) ELSE "None"
         IN  /\ Len(r.self.text) <= MaxText
             /\ text' = r.self.text
             /\ old_state' = r.self.old_state
             /\ last_edit' = r.self.last_edit
             /\ clipboard' = r.clip
             /\ edit_pc' = IF r.panic THEN "panic" ELSE "run"
             /\ past' = Remember(<<"ReceivedCharacter", c>>, gave)
             /\ IF edit # "None"
                  THEN /\ run_kind' = edit
                       /\ run_start' = IF run_kind = edit THEN run_start ELSE text
                  ELSE IF editable /\ c = 26
                  THEN /\ run_kind' = IF run_kind \in {"None", "Undone"}
                                        THEN "None" ELSE "Undone"
                       /\ UNCHANGED run_start
                  ELSE UNCHANGED <<run_kind, run_start>>
    /\ UNCHANGED <<widget, editable, multi_line, on_activate, size_handle>>
    /\ UNCHANGED nonEditVars

\* Handler::handle_action(tk, Action::Activate) of an EditBox
HandleActivate ==
    /\ edit_pc = "run"
    /\ widget = "EditBox"
    /\ past' = Remember(<<"Activate">>,
                        [response |-> <<"None">>, called |-> FALSE,
                         redraw |-> FALSE])
    /\ UNCHANGED <<widget, text, old_state, last_edit, editable, multi_line,
                   on_activate, clipboard, size_handle, edit_pc, run_kind,
                   run_start>>
    /\ UNCHANGED nonEditVars

\* HasText::set_string(tk, text)
SetString ==
    /\ edit_pc = "run"
    /\ \E t \in Texts :
         /\ text' = t
         /\ past' = Remember(<<"set_string", t>>,
                             [response |-> <<"None">>, called |-> FALSE,
                              redraw |-> TRUE])
    /\ UNCHANGED <<widget, old_state, last_edit, editable, multi_line,
                   on_activate, clipboard, size_handle, edit_pc, run_kind,
                   run_start>>
    /\ UNCHANGED nonEditVars

\* Editable::set_editable(editable)
SetEditable ==
    /\ edit_pc = "run"
    /\ widget = "EditBox"
    /\ \E e \in BOOLEAN :
         /\ editable' = e
         /\ past' = Remember(<<"set_editable", e>>,
                             [response |-> <<"None">>, called |-> FALSE,
                              redraw |-> FALSE])
    /\ UNCHANGED <<widget, text, old_state, last_edit, multi_line,
                   on_activate, clipboard, size_handle, edit_pc, run_kind,
                   run_start>>
    /\ UNCHANGED nonEditVars

\* Widget::size_rules(size_handle, axis)
SizeRulesOf ==
    /\ edit_pc = "run"
    /\ \E axis \in Axes :
         LET r == IF widget = "Label"
                    THEN Label_size_rules(Self, size_handle, axis)
                    ELSE EditBox_size_rules(Self, size_handle, axis)
         IN  /\ text' = r.self.text
             /\ old_state' = r.self.old_state
             /\ last_edit' = r.self.last_edit
             /\ editable' = r.self.editable
             /\ multi_line' = r.self.multi_line
             /\ edit_pc' = IF r.overflow /\ build = "debug" THEN "panic"
                                                             ELSE "run"
             /\ past' = Remember(<<"size_rules", axis>>, r.ret)
    /\ UNCHANGED <<widget, on_activate, clipboard, size_handle, run_kind,
                   run_start>>
    /\ UNCHANGED nonEditVars

NextEdit ==
    \/ HandleReceivedCharacter
    \/ HandleActivate
    \/ SetString
    \/ SetEditable
    \/ SizeRulesOf

SpecEdit == InitEdit /\ [][NextEdit]_vars

\* ------------------------------------------------- properties of solve_seq
NumChildren == Len(out)
Aggregate == rules[Len(rules)]
InDeficit == NumChildren > 0 /\ target < Aggregate.a
InSurplus == NumChildren > 0 /\ target >= Aggregate.a
Returned == pc = "done"
AllRulesEqual == \A i, j \in 1..NumChildren : rules[i] = rules[j]
MaxOut == CHOOSE m \in { out[n] : n \in 1..NumChildren } :
              \A n \in 1..NumChildren : out[n] <= m

\* C1: in the deficit case the sizes written to out sum to the target.
C1_DeficitSumIsTarget ==
    (Returned /\ InDeficit) => SumSeq(out) = target

\* C2: in the surplus case the sizes sum to the target and no child is below
\* its minimum.
C2_SurplusSumAndMinimums ==
    (Returned /\ InSurplus) =>
        /\ SumSeq(out) = target
        /\ \A n \in 1..NumChildren : out[n] >= rules[n].a

C2_Witness ==
    /\ Returned /\ InSurplus
    /\ NumChildren = 3
    /\ sum < target
    /\ Aggregate.b > Aggregate.a
    /\ \E n \in 1..NumChildren : out[n] > rules[n].b

\* C4: in the deficit case no subtraction underflows, no division by zero
\* occurs and no assertion fails: the call never panics.
C4_DeficitNeverPanics == (NumChildren > 0 /\ target < Aggregate.a) => pc # "panic"

C4_Witness ==
    /\ Returned /\ InDeficit
    /\ target = 0
    /\ NumChildren = 3
    /\ \A n \in 1..NumChildren : rules[n].a > 0 /\ out[n] = 0
    /\ rules[1].a # rules[2].a

\* C5: with positive aggregate headroom each size is the minimum plus the
\* floor of the exact proportional share, plus one for the first rem children,
\* rem being the target minus the sum of the floored sizes.
ExactFloor(n) ==
    rules[n].a + ((target - Aggregate.a) * (rules[n].b - rules[n].a))
                     \div (Aggregate.b - Aggregate.a)
ExactRem == target - SumSeq([n \in 1..NumChildren |-> ExactFloor(n)])
C5_ProportionalFloorPlusRemainder ==
    (Returned /\ InSurplus /\ Aggregate.b > Aggregate.a) =>
        \A n \in 1..NumChildren :
            out[n] = ExactFloor(n) + (IF n <= ExactRem THEN 1 ELSE 0)

\* C6: in the deficit case with all child rules equal, the sizes differ from
\* each other by at most one unit.
C6_EqualRulesFairShrink ==
    (Returned /\ InDeficit /\ AllRulesEqual) =>
        \A i, j \in 1..NumChildren : out[i] - out[j] <= 1

C6_Witness ==
    /\ Returned /\ InDeficit /\ AllRulesEqual
    /\ NumChildren = 3
    /\ out[1] < out[3]
    /\ excess = 0

\* C7: in the deficit case no child exceeds its minimum, every reduced child
\* ends within one unit of the largest size, and a child whose minimum is
\* below the largest size keeps its minimum.
C7_WaterFilling ==
    (Returned /\ InDeficit) =>
        \A n \in 1..NumChildren :
            /\ out[n] <= rules[n].a
            /\ out[n] < rules[n].a => out[n] >= MaxOut - 1
            /\ rules[n].a < MaxOut => out[n] = rules[n].a

C7_Witness ==
    /\ Returned /\ InDeficit
    /\ NumChildren = 3
    /\ \E i, j, k \in 1..NumChildren :
          /\ out[i] < rules[i].a
          /\ out[j] < rules[j].a
          /\ rules[i].a # rules[j].a
          /\ rules[k].a < MaxOut
          /\ out[k] = rules[k].a

\* C8: with zero aggregate headroom every child gets its minimum plus
\* floor(extra / N), and the extra mod N left-over units go one each to the
\* children with the lowest indices.
C8_ZeroHeadroomEvenSplit ==
    (Returned /\ InSurplus /\ Aggregate.b = Aggregate.a) =>
        LET extra == target - Aggregate.a IN
        \A n \in 1..NumChildren :
            out[n] = rules[n].a + extra \div NumChildren
                     + (IF n <= extra % NumChildren THEN 1 ELSE 0)

C8_Witness ==
    /\ Returned /\ InSurplus /\ Aggregate.b = Aggregate.a
    /\ NumChildren = 3
    /\ (target - Aggregate.a) % NumChildren = 2
    /\ target - Aggregate.a > NumChildren

\* C9: in the surplus case both assertions hold: the floored sizes sum to at
\* most the target, and the remainder is at most N.
C9_SurplusAssertionsHold ==
    /\ pc = "check" => (sum <= target /\ target - sum <= NumChildren)
    /\ InSurplus => pc # "panic"

C9_Witness ==
    /\ pc = "check"
    /\ Aggregate.b > Aggregate.a
    /\ target - sum = NumChildren
    /\ target > Aggregate.b

\* C10: a second call with the same rules and target leaves the same sizes in
\* out as the first, whatever out held before the call.
C10_Deterministic ==
    (Returned /\ calls = 2) => out = first_out

C10_Witness ==
    /\ Returned /\ calls = 2
    /\ NumChildren = 3
    /\ prior # first_out
    /\ InSurplus
    /\ rules[1] = rules[2]
    /\ out[1] = out[2] + 1

\* --------------------------------------- properties of the value operations
\* C3: every value the operations produce from operands with pref >= min has
\* pref >= min.
C3_PrefAtLeastMin == sr_pc = "run" => sr.b >= sr.a

\* ------------------------------------------ properties of single calls
Called(fn) == call.fn = fn /\ ret.kind # "none"

\* C11: variable(min, pref) panics whenever min > pref and otherwise returns
\* exactly that minimum and preferred size; fixed(n) returns min = pref = n.
C11_Constructors ==
    /\ Called("SizeRules::variable") =>
          IF call.min > call.pref
              THEN ret.kind = "panic"
              ELSE ret.kind = "value" /\ ret.v.a = call.min /\ ret.v.b = call.pref
    /\ Called("SizeRules::fixed") =>
          ret.kind = "value" /\ ret.v.a = call.n /\ ret.v.b = call.n

C11_Witness ==
    /\ Called("SizeRules::variable")
    /\ call.min = call.pref
    /\ call.min > 0
    /\ ret.kind = "value"

MarginCount == IF call.vertical THEN call.rows ELSE call.columns
MarginPart(size) == IF call.vertical THEN size[2] ELSE size[1]
MarginExpected(count) ==
    MarginPart(call.self.first) + MarginPart(call.self.last)
        + MarginPart(call.self.inter) * (IF count = 0 THEN 0 ELSE count - 1)

\* C12 as stated: Margins::size_rules returns a fixed rule (min == pref) equal
\* to first + last + inter * (count - 1) on the queried axis, with count - 1
\* saturating at 0.
C12_ReturnsTheSum ==
    Called("Margins::size_rules") =>
        /\ ret.kind = "value"
        /\ ret.v.a = ret.v.b
        /\ ret.v.a = MarginExpected(MarginCount)

\* C12, amended: count - 1 saturates at 0 and never underflows, so count = 0
\* gives the result of count = 1; the rule returned is fixed and equals
\* first + last + inter * (count - 1) whenever that sum fits the word; where
\* it does not, a build with overflow checks panics and one without returns
\* the sum modulo the word size.
C12_MarginsSizeRules ==
    Called("Margins::size_rules") =>
        IF MarginExpected(MarginCount) <= WordMax
            THEN /\ ret = Value(fixed(MarginExpected(MarginCount)))
                 /\ MarginCount = 0 => ret = Value(fixed(MarginExpected(1)))
            ELSE IF build = "debug"
                THEN ret.kind = "panic"
                ELSE ret = Value(fixed(MarginExpected(MarginCount) % (WordMax + 1)))

C12_Witness ==
    /\ Called("Margins::size_rules")
    /\ ret.kind = "value"
    /\ call.vertical
    /\ call.rows = 0
    /\ call.columns > 1
    /\ call.self.inter[2] > 0
    /\ call.self.inter[1] # call.self.inter[2]
    /\ ret.v.a > 0

\* C13: set_at_least_op_sub never decreases a component of self; the minimum
\* becomes max(min, x.min - y.min) when x.min > y.min and stays otherwise;
\* the preferred size is at least max(pref, x.pref - y.pref) when
\* x.pref > y.pref; and pref >= min afterwards.
C13_SetAtLeastOpSub ==
    Called("SizeRules::set_at_least_op_sub") =>
        LET self == call.self
            x == call.x
            y == call.y
        IN  /\ ret.kind = "value"
            /\ ret.v.a >= self.a
            /\ ret.v.b >= self.b
            /\ ret.v.a = IF x.a > y.a THEN Max2(self.a, x.a - y.a) ELSE self.a
            /\ x.b > y.b => ret.v.b >= Max2(self.b, x.b - y.b)
            /\ ret.v.b >= ret.v.a

C13_Witness ==
    /\ Called("SizeRules::set_at_least_op_sub")
    /\ call.x.a - call.y.a > call.self.b
    /\ call.x.b < call.y.b
    /\ ret.v.b > call.self.b

\* C14: reduce_min_to(n) sets the minimum to min(old minimum, n) and leaves
\* the preferred size unchanged.
C14_ReduceMinTo ==
    Called("SizeRules::reduce_min_to") =>
        /\ ret.kind = "value"
        /\ ret.v.a = Min2(call.self.a, call.min)
        /\ ret.v.a <= call.self.a
        /\ call.min > call.self.a => ret.v = call.self
        /\ ret.v.b = call.self.b

C14_Witness ==
    /\ Called("SizeRules::reduce_min_to")
    /\ call.min < call.self.a
    /\ call.self.a < call.self.b
    /\ ret.v.a = call.min

\* C16: AxisInfo::fixed(v) returns Some(s) exactly when the AxisInfo was made
\* with fixed = Some(s) and v is the measured axis, and None otherwise; a
\* fixed size of 0 is not None.
C16_AxisInfoFixed ==
    Called("AxisInfo::fixed") =>
        /\ ret.kind = "value"
        /\ ret.v = IF call.fixed.some /\ call.v = call.vertical
                     THEN Some(call.fixed.v)
                     ELSE None
        /\ (call.fixed = Some(0) /\ call.v = call.vertical) => ret.v # None

C16_Witness ==
    /\ Called("AxisInfo::fixed")
    /\ call.fixed = Some(0)
    /\ call.v = call.vertical
    /\ ret.v.some

\* C17: err_unhandled and err_num panic on the assertion in a debug build;
\* in a release build they print a diagnostic and return Response::None.
C17_ErrorsDegrade ==
    (Called("err_unhandled") \/ Called("err_num")) =>
        IF build = "debug"
            THEN ret.kind = "panic" /\ printed = <<>>
            ELSE /\ ret = Value("Response::None")
                 /\ Len(printed) = 1

C17_Witness ==
    /\ Called("err_unhandled")
    /\ build = "release"
    /\ ret = Value("Response::None")
    /\ printed # <<>>

\* ------------------------------------------------ properties of WidgetId
\* C15: every identifier next() returns is strictly greater than its
\* argument, so the identifiers handed out by repeated next() are strictly
\* increasing and never repeat; at the maximum value next() halts and does
\* not wrap around to an identifier handed out before.
C15_StrictlyIncreasingIds ==
    /\ \A i, j \in 1..Len(issued) : i < j => issued[i] < issued[j]
    /\ \A i \in 1..Len(issued) : issued[i] \in FIRST..LAST
    /\ wid_pc = "run" => (Len(issued) > 0 /\ wid = issued[Len(issued)])
    /\ wid_pc = "panic" => (wid = LAST /\ issued[Len(issued)] = LAST)

C15_Witness ==
    /\ wid_pc = "panic"
    /\ build = "release"
    /\ issued[1] = FIRST
    /\ Len(issued) = LAST

\* ------------------------------------------ properties of the event loop
\* C19: after a TkAction::Close removes window i while other windows remain,
\* every entry left in resumes holds a valid index into windows that denotes
\* the window that scheduled it, no entry refers to a closed window, and the
\* index update does not underflow.
C19_ResumesFollowWindows ==
    (closed # {} /\ windows # <<>>) =>
        /\ loop_pc # "panic: subtract with overflow"
        /\ \A k \in 1..Len(resumes) :
              /\ resumes[k].idx < Len(windows)
              /\ windows[resumes[k].idx + 1] = resumes[k].by
              /\ resumes[k].by \notin closed

\* ------------------------------------------ properties of the text widgets
\* an undo (U+001A) was the last input of an editable EditBox
Undone ==
    /\ edit_pc = "run"
    /\ past # <<>>
    /\ past[1].op = UndoInput
    /\ editable

\* size_rules was the last operation on the widget
Measured ==
    /\ edit_pc = "run"
    /\ past # <<>>
    /\ past[1].op[1] = "size_rules"

C20_UndoRedo ==
    /\ Undone =>
          LET found == past[1].found
          IN  IF found.old_state.some
                  THEN /\ text = found.old_state.v
                       /\ old_state = Some(found.text)
                       /\ last_edit = "None"
                  ELSE /\ text = found.text
                       /\ old_state = None
    /\ (Undone /\ Len(past) = 2) =>
          /\ text = past[2].found.text
          /\ old_state = past[2].found.old_state
    /\ (Undone /\ run_kind = "Undone") => text = run_start

\* a run of two inserts into the empty text, then two undo inputs
C20_Witness ==
    /\ Undone
    /\ Len(past) = 2
    /\ past[2].found.text = <<97, 97>>
    /\ past[2].found.old_state = Some(<<>>)
    /\ past[2].found.last_edit = "Insert"
    /\ text = <<97, 97>>
    /\ run_start = <<>>

\* the step is handle_action(Action::ReceivedCharacter(c))
Receives(c) ==
    /\ edit_pc = "run"
    /\ widget = "EditBox"
    /\ past' # <<>>
    /\ past'[1].op = <<"ReceivedCharacter", c>>

\* the step is handle_action(Action::ReceivedCharacter(c)) for some c
ReceivesAny ==
    /\ edit_pc = "run"
    /\ widget = "EditBox"
    /\ past' # <<>>
    /\ past'[1].op[1] = "ReceivedCharacter"

\* a control character: below U+0020 or in U+007F..U+009F
Control(c) == c \in 0..31 \/ c \in 127..159

\* the part of a string before its first control character
RECURSIVE BeforeControl(_)
BeforeControl(s) ==
    IF s = <<>> \/ Control(Head(s)) THEN <<>>
    ELSE <<Head(s)>> \o BeforeControl(Tail(s))

\* C21: paste (U+0016) appends the part of the clipboard content before its
\* first control character and nothing else; it completes without panic for
\* every clipboard string, also one with multi-byte characters, and appends
\* nothing when the clipboard is empty or unavailable.
C21_PasteCutsAtControl ==
    [][(Receives(22) /\ editable) =>
          /\ edit_pc' = "run"
          /\ text' = text \o (IF clipboard.some THEN BeforeControl(clipboard.v)
                                                ELSE <<>>)]_vars

NoControl(s) == \A i \in 1..Len(s) : ~Control(s[i])

\* C22: starting from a text without control characters the text never
\* contains one: a control character received is not appended and any other
\* character received is appended at the end; while editable is false no
\* received character changes text, old_state or last_edit and received_char
\* returns false.
C22_ControlCharsFiltered ==
    /\ [](widget = "EditBox" => NoControl(text))
    /\ [][ReceivesAny =>
            LET c == past'[1].op[2]
            IN  /\ (editable /\ ~Control(c)) => text' = Append(text, c)
                /\ (editable /\ c \in {3, 9, 13}) => text' = text
                /\ ~editable =>
                      /\ UNCHANGED <<text, old_state, last_edit>>
                      /\ ~past'[1].gave.ret]_vars

\* a character arrives at a box that was edited and then made read-only
C22_Witness ==
    /\ widget = "EditBox"
    /\ edit_pc = "run"
    /\ ~editable
    /\ past # <<>>
    /\ past[1].op = <<"ReceivedCharacter", 97>>
    /\ ~past[1].gave.ret
    /\ text = <<97>>
    /\ old_state = Some(<<>>)
    /\ last_edit = "Insert"

\* what an EditBox with a closure answers to a received character: the
\* closure is called, with the text, exactly for a carriage return on an
\* editable box, and the carriage return leaves the text alone
ActivateOnReturn(c) ==
    LET g == past'[1].gave
    IN  /\ g.called <=> (c = 13 /\ editable)
        /\ g.called => g.response = <<"Msg", text>>
        /\ ~g.called => g.response = <<"None">>
        /\ c = 13 => text' = text

\* C23: an EditBox with an on_activate closure calls it with the current text
\* and returns its result exactly when a carriage return arrives while the box
\* is editable; every other received character, and every character received
\* while not editable, yields Response::None without calling the closure; the
\* carriage return does not change the text.
C23_ActivateOnReturn ==
    [][\A c \in InputChars :
          (Receives(c) /\ on_activate = "closure") =>
              (edit_pc' = "run" /\ ActivateOnReturn(c))]_vars

\* the same for the calls that return
C23_ActivateOnReturnUnlessPanic ==
    [][\A c \in InputChars :
          (Receives(c) /\ on_activate = "closure" /\ edit_pc' = "run") =>
              ActivateOnReturn(c)]_vars

\* ================================================= solve_seq, continued
MaxMin == LET N == NumChildren
          IN  CHOOSE m \in { rules[n].a : n \in 1..N } :
                  \A n \in 1..N : rules[n].a <= m

SurplusGrows(slack) ==
    \A t1 \in Aggregate.a..target :
        LET out_t1 == SurplusOut(rules, t1)
        IN  \A n \in 1..NumChildren : out_t1[n] <= out[n] + slack

\* C25: in the surplus case solve_seq is monotone in target: for the same
\* rules and targets t1 <= t2, both at least rules[N].min, no child is smaller
\* at t2 than at t1.
C25_SurplusMonotone == (Returned /\ InSurplus) => SurplusGrows(0)

\* C25, amended: a child is at most one unit smaller at the larger target (the
\* unit it had from the remainder), and no child is smaller when all the
\* headroom is zero (pref_rel == 0).
C25_SurplusMonotoneButRemainder ==
    (Returned /\ InSurplus) =>
        /\ out = SurplusOut(rules, target)
        /\ SurplusGrows(IF Aggregate.b = Aggregate.a THEN 0 ELSE 1)

\* headrooms 3, 1, 3 at two units over the minimum: the second child has a
\* unit of the remainder that it loses at three units over
C25_Witness ==
    /\ Returned
    /\ InSurplus
    /\ NumChildren = 3
    /\ \A n \in 1..3 : rules[n].a = 0
    /\ rules[1].b = 3 /\ rules[2].b = 1 /\ rules[3].b = 3
    /\ target = 3
    /\ out = <<2, 0, 1>>
    /\ SurplusOut(rules, 2) = <<1, 1, 0>>

\* C26: solve_seq hits the endpoints exactly: a target equal to the total
\* minimum gives every child its minimum, and a target equal to the total
\* preferred size gives every child its preferred size.
C26_Endpoints ==
    (Returned /\ NumChildren > 0) =>
        /\ target = Aggregate.a =>
              \A n \in 1..NumChildren : out[n] = rules[n].a
        /\ target = Aggregate.b =>
              \A n \in 1..NumChildren : out[n] = rules[n].b

\* the preferred endpoint above the minimum, with a child without headroom
\* before one with headroom
C26_Witness ==
    /\ Returned
    /\ NumChildren >= 2
    /\ target = Aggregate.b
    /\ Aggregate.b > Aggregate.a
    /\ rules[1].b = rules[1].a
    /\ rules[2].b > rules[2].a
    /\ \A n \in 1..NumChildren : out[n] = rules[n].b

\* C27: in the deficit case solve_seq preserves the order of the minimums:
\* rules[i].min <= rules[j].min implies out[i] <= out[j] + 1, and
\* rules[i].min < rules[j].min implies out[i] <= out[j].
C27_DeficitKeepsOrder ==
    (Returned /\ InDeficit) =>
        \A i, j \in 1..NumChildren :
            /\ rules[i].a <= rules[j].a => out[i] <= out[j] + 1
            /\ rules[i].a < rules[j].a => out[i] <= out[j]

\* C27, amended: a child that started no larger ends at most one unit larger;
\* a child that started smaller does not end larger when it comes first in
\* the sequence.
C27_DeficitKeepsOrderButOne ==
    (Returned /\ InDeficit) =>
        \A i, j \in 1..NumChildren :
            /\ rules[i].a <= rules[j].a => out[i] <= out[j] + 1
            /\ (rules[i].a < rules[j].a /\ i < j) => out[i] <= out[j]

\* minimums 2, 1, 1 and target 2: the children are levelled to 1 and the unit
\* loop takes from the first ones, so the child that started largest ends
\* below the last one
C27_Witness ==
    /\ Returned
    /\ InDeficit
    /\ NumChildren = 3
    /\ rules[1].a = 2 /\ rules[2].a = 1 /\ rules[3].a = 1
    /\ target = 2
    /\ out[1] < out[3]

====
